---- MODULE Spec2Model ----
(***************************************************************************)
(* A model of the line-counting TCP server of src/src/main.rs:             *)
(*   - CacheSession and its Future::poll (the per-connection session),      *)
(*   - the Lines<BufReader<R>> reader the session is built on,              *)
(*   - the supervisor closure (amt.then) and the accept loop of main.       *)
(* One Poll action is one call of CacheSession::poll, run to the point      *)
(* where it returns (NotReady, Ok or Err), followed, when it resolves, by   *)
(* the supervisor's closure.  The network is the environment: bytes         *)
(* arrive in chunks, the peer closes, reads and flushes fail.               *)
(***************************************************************************)
EXTENDS Integers, Sequences, FiniteSets, TLC

\* The connections of the model.
Conns == {"A", "B"}

\* Bytes. LF is the line delimiter, "a" and "b" are one-byte characters, HI is
\* the first byte of a two-byte UTF-8 character and LO its continuation byte
\* (LO on its own, or HI not followed by LO, is not valid UTF-8).
LF == "LF"
HI == "HI"
LO == "LO"
Bytes == {"a", LF, HI, LO}

\* Bound: bytes one peer sends over a connection (single-session runs).
MaxBytes == 3
\* Bound: bytes of one arriving chunk.
MaxChunk == 2
\* Bound: the populated buffer region of a session drawn for the drain runs.
MaxCap == 2

\* The length of a session's buffer: Box::new([0; 2048]).
BufLen == 2048

VARIABLES
    listener,   \* "listening" | "stopped": the for_each future over incoming()
    llog,       \* number of "failed to accept socket" lines printed
    phase,      \* phase[c]: "idle" | "queued" | "live" | "done" | "failed"
    sess,       \* sess[c]: the CacheSession fields
    waiting,    \* waiting[c]: where the last poll suspended ("none" if it did not)
    lines,      \* lines[c]: the Lines<BufReader<R>> state: [line, rbuf]
    rx,         \* rx[c]: bytes received by the socket and not yet read
    rstate,     \* rstate[c]: read side of the socket: "open" | "eof" | "err"
    wr,         \* wr[c]: write half: [mode: "ok"|"zero"|"err", space, fl, out]
    sent,       \* sent[c]: every byte the peer has sent so far (history)
    log,        \* log[c]: the lines printed for connection c, in order
    task,       \* task[c]: "none" | "spawned" | "ok" | "err": the spawned future
    last        \* last[c]: what the latest poll of c did (observation of the step)

vars == <<listener, llog, phase, sess, waiting, lines, rx, rstate, wr, sent, log,
          task, last>>

-----------------------------------------------------------------------------
(* Sequences of bytes *)

RECURSIVE SeqsUpTo(_, _)
SeqsUpTo(S, n) ==
    IF n = 0 THEN {<<>>}
    ELSE LET T == SeqsUpTo(S, n - 1)
         IN  T \cup {Append(t, x) : t \in {u \in T : Len(u) = n - 1}, x \in S}

Min(a, b) == IF a < b THEN a ELSE b

\* Position of the first LF of s, 0 if there is none (memchr).
IndexOfLF(s) ==
    IF \E i \in 1..Len(s) : s[i] = LF
    THEN CHOOSE i \in 1..Len(s) : s[i] = LF /\ \A j \in 1..(i - 1) : s[j] # LF
    ELSE 0

\* Number of LF bytes of s.
RECURSIVE CountLF(_)
CountLF(s) ==
    IF s = <<>> THEN 0
    ELSE (IF s[1] = LF THEN 1 ELSE 0) + CountLF(Tail(s))

\* str::from_utf8(s).is_ok()
RECURSIVE Utf8Valid(_)
Utf8Valid(s) ==
    IF s = <<>> THEN TRUE
    ELSE IF s[1] = LO THEN FALSE
    ELSE IF s[1] = HI
         THEN Len(s) >= 2 /\ s[2] = LO /\ Utf8Valid(SubSeq(s, 3, Len(s)))
    ELSE Utf8Valid(Tail(s))

-----------------------------------------------------------------------------
(* The line reader: tokio::io::lines(std::io::BufReader::new(reader)) *)

\* BufRead::read_until(b'\n') on the BufReader: take from the reader's buffer up
\* to and including the first LF; when the buffer runs out without one, read
\* the socket again.  got: the bytes appended to the string by this call.
RECURSIVE ReadUntil(_, _, _, _)
ReadUntil(got, rbuf, rxc, rs) ==
    IF rbuf = <<>>
    THEN IF rs = "err"
         THEN [ret |-> "IoErr", got |-> got, rbuf |-> rbuf, rx |-> rxc]
         ELSE IF rxc # <<>>
         THEN ReadUntil(got, rxc, <<>>, rs)
         ELSE IF rs = "eof"
         THEN [ret |-> "Ok", got |-> got, rbuf |-> rbuf, rx |-> rxc]
         ELSE [ret |-> "WouldBlock", got |-> got, rbuf |-> rbuf, rx |-> rxc]
    ELSE LET i == IndexOfLF(rbuf)
         IN  IF i > 0
             THEN [ret |-> "Ok", got |-> got \o SubSeq(rbuf, 1, i),
                   rbuf |-> SubSeq(rbuf, i + 1, Len(rbuf)), rx |-> rxc]
             ELSE ReadUntil(got \o rbuf, <<>>, rxc, rs)

\* The UTF-8 guard of BufRead::read_line around read_until's result u: what
\* was appended is kept only if it is valid UTF-8 (otherwise the string is cut
\* back to its old length, and a successful read becomes InvalidData).
Guard(line, u) ==
    [ret  |-> IF ~Utf8Valid(u.got) /\ u.ret = "Ok" THEN "InvalidData" ELSE u.ret,
     n    |-> Len(u.got),
     line |-> IF Utf8Valid(u.got) THEN line \o u.got ELSE line,
     rbuf |-> u.rbuf,
     rx   |-> u.rx]

\* BufRead::read_line on the BufReader.
ReadLine(line, rbuf, rxc, rs) == Guard(line, ReadUntil(<<>>, rbuf, rxc, rs))

\* The line without its trailing LF.
StripEol(s) ==
    IF s # <<>> /\ s[Len(s)] = LF THEN SubSeq(s, 1, Len(s) - 1) ELSE s

\* LinesResult with a slip: bytes accumulated without a trailing LF are not
\* handed out at the end of the stream.
LinesResult_DropTail(q) ==
    IF q.ret = "WouldBlock"
    THEN [res |-> "NotReady", text |-> <<>>,
          r |-> [line |-> q.line, rbuf |-> q.rbuf], rx |-> q.rx]
    ELSE IF q.ret # "Ok"
    THEN [res |-> q.ret, text |-> <<>>,
          r |-> [line |-> q.line, rbuf |-> q.rbuf], rx |-> q.rx]
    ELSE IF q.line = <<>> \/ q.line[Len(q.line)] # LF
    THEN [res |-> "None", text |-> <<>>,
          r |-> [line |-> <<>>, rbuf |-> q.rbuf], rx |-> q.rx]
    ELSE [res |-> "Some", text |-> StripEol(q.line),
          r |-> [line |-> <<>>, rbuf |-> q.rbuf], rx |-> q.rx]

\* Lines::poll on read_line's result q: NotReady on WouldBlock, the error on an
\* error, None at the end of the stream with nothing accumulated, and otherwise
\* the accumulated line, which is taken out of the reader.
LinesResult(q) ==
    IF q.ret = "WouldBlock"
    THEN [res |-> "NotReady", text |-> <<>>,
          r |-> [line |-> q.line, rbuf |-> q.rbuf], rx |-> q.rx]
    ELSE IF q.ret # "Ok"
    THEN [res |-> q.ret, text |-> <<>>,
          r |-> [line |-> q.line, rbuf |-> q.rbuf], rx |-> q.rx]
    ELSE IF q.n = 0 /\ q.line = <<>>
    THEN [res |-> "None", text |-> <<>>,
          r |-> [line |-> q.line, rbuf |-> q.rbuf], rx |-> q.rx]
    ELSE [res |-> "Some", text |-> StripEol(q.line),
          r |-> [line |-> <<>>, rbuf |-> q.rbuf], rx |-> q.rx]

\* reader.poll() of reader state r over a socket holding rxc in state rs.
LinesPoll(r, rxc, rs) == LinesResult(ReadLine(r.line, r.rbuf, rxc, rs))

-----------------------------------------------------------------------------
(* The write half *)

\* AsyncWrite::poll_write of n bytes on write half w.
PollWrite(w, n) ==
    IF w.mode = "err" THEN [res |-> "IoErr", i |-> 0, w |-> w]
    ELSE IF w.mode = "zero" THEN [res |-> "Ready", i |-> 0, w |-> w]
    ELSE IF w.space = 0 THEN [res |-> "NotReady", i |-> 0, w |-> w]
    ELSE LET i == Min(n, w.space)
         IN  [res |-> "Ready", i |-> i,
              w |-> [w EXCEPT !.space = @ - i, !.out = @ + i]]

\* AsyncWrite::poll_flush on write half w.
PollFlush(w) ==
    IF w.fl = "err" THEN "IoErr"
    ELSE IF w.fl = "pending" THEN "NotReady"
    ELSE "Ready"

-----------------------------------------------------------------------------
(* CacheSession *)

\* cache_session(reader, writer)
cache_session ==
    [reader |-> TRUE, read_done |-> FALSE, writer |-> TRUE,
     amt |-> 0, pos |-> 0, cap |-> 0]

NewLines == [line |-> <<>>, rbuf |-> <<>>]

\* The state one call of poll works on.
PollState(c) ==
    [s |-> sess[c], r |-> lines[c], rx |-> rx[c], rs |-> rstate[c], w |-> wr[c],
     log |-> <<>>, res |-> "Running", wait |-> "none",
     polled |-> 0, flushed |-> 0, wrote |-> 0]

\* OnLine with a change: the line and its newline are put in the buffer to be
\* written back.
OnLine_Copy(st, p) ==
    CASE p.res = "NotReady" ->
           [st EXCEPT !.r = p.r, !.rx = p.rx, !.polled = @ + 1,
                      !.res = "NotReady", !.wait = "read"]
      [] p.res = "Some" ->
           [st EXCEPT !.r = p.r, !.rx = p.rx, !.polled = @ + 1,
                      !.log = Append(@, [k |-> "line", v |-> p.text]),
                      !.s.amt = @ + 1, !.s.pos = 0, !.s.cap = Len(p.text) + 1]
      [] p.res = "None" ->
           [st EXCEPT !.r = p.r, !.rx = p.rx, !.polled = @ + 1,
                      !.s.read_done = TRUE]
      [] OTHER ->
           [st EXCEPT !.r = p.r, !.rx = p.rx, !.polled = @ + 1,
                      !.res = "Err", !.wait = p.res]

\* OnLine with a slip: a reader that is not ready is taken for the end of the
\* stream.
OnLine_EofOnNotReady(st, p) ==
    CASE p.res = "NotReady" ->
           [st EXCEPT !.r = p.r, !.rx = p.rx, !.polled = @ + 1,
                      !.s.read_done = TRUE]
      [] p.res = "Some" ->
           [st EXCEPT !.r = p.r, !.rx = p.rx, !.polled = @ + 1,
                      !.log = Append(@, [k |-> "line", v |-> p.text]),
                      !.s.amt = @ + 1]
      [] p.res = "None" ->
           [st EXCEPT !.r = p.r, !.rx = p.rx, !.polled = @ + 1,
                      !.s.read_done = TRUE]
      [] OTHER ->
           [st EXCEPT !.r = p.r, !.rx = p.rx, !.polled = @ + 1,
                      !.res = "Err", !.wait = p.res]

\* OnLine with a slip: the tally is raised before the reader's answer is
\* looked at, so a reader that is not ready is counted as a line.
OnLine_CountPending(st, p) ==
    CASE p.res = "NotReady" ->
           [st EXCEPT !.r = p.r, !.rx = p.rx, !.polled = @ + 1,
                      !.s.amt = @ + 1, !.res = "NotReady", !.wait = "read"]
      [] p.res = "Some" ->
           [st EXCEPT !.r = p.r, !.rx = p.rx, !.polled = @ + 1,
                      !.log = Append(@, [k |-> "line", v |-> p.text]),
                      !.s.amt = @ + 1]
      [] p.res = "None" ->
           [st EXCEPT !.r = p.r, !.rx = p.rx, !.polled = @ + 1,
                      !.s.read_done = TRUE]
      [] OTHER ->
           [st EXCEPT !.r = p.r, !.rx = p.rx, !.polled = @ + 1,
                      !.res = "Err", !.wait = p.res]

\* OnLine with a slip: at the end of the stream the session waits for more
\* lines.
OnLine_EofWaits(st, p) ==
    CASE p.res = "NotReady" ->
           [st EXCEPT !.r = p.r, !.rx = p.rx, !.polled = @ + 1,
                      !.res = "NotReady", !.wait = "read"]
      [] p.res = "Some" ->
           [st EXCEPT !.r = p.r, !.rx = p.rx, !.polled = @ + 1,
                      !.log = Append(@, [k |-> "line", v |-> p.text]),
                      !.s.amt = @ + 1]
      [] p.res = "None" ->
           [st EXCEPT !.r = p.r, !.rx = p.rx, !.polled = @ + 1,
                      !.res = "NotReady", !.wait = "read"]
      [] OTHER ->
           [st EXCEPT !.r = p.r, !.rx = p.rx, !.polled = @ + 1,
                      !.res = "Err", !.wait = p.res]

\* OnLine with a change: a line that is not valid text is skipped and the session
\* reads on.
OnLine_SkipBadLine(st, p) ==
    CASE p.res = "NotReady" ->
           [st EXCEPT !.r = p.r, !.rx = p.rx, !.polled = @ + 1,
                      !.res = "NotReady", !.wait = "read"]
      [] p.res = "Some" ->
           [st EXCEPT !.r = p.r, !.rx = p.rx, !.polled = @ + 1,
                      !.log = Append(@, [k |-> "line", v |-> p.text]),
                      !.s.amt = @ + 1]
      [] p.res = "None" ->
           [st EXCEPT !.r = p.r, !.rx = p.rx, !.polled = @ + 1,
                      !.s.read_done = TRUE]
      [] p.res = "InvalidData" ->
           [st EXCEPT !.r = p.r, !.rx = p.rx, !.polled = @ + 1]
      [] OTHER ->
           [st EXCEPT !.r = p.r, !.rx = p.rx, !.polled = @ + 1,
                      !.res = "Err", !.wait = p.res]

\* match on the reader's answer p (try_ready! returns NotReady and errors).
OnLine(st, p) ==
    CASE p.res = "NotReady" ->
           [st EXCEPT !.r = p.r, !.rx = p.rx, !.polled = @ + 1,
                      !.res = "NotReady", !.wait = "read"]
      [] p.res = "Some" ->
           [st EXCEPT !.r = p.r, !.rx = p.rx, !.polled = @ + 1,
                      !.log = Append(@, [k |-> "line", v |-> p.text]),
                      !.s.amt = @ + 1]
      [] p.res = "None" ->
           [st EXCEPT !.r = p.r, !.rx = p.rx, !.polled = @ + 1,
                      !.s.read_done = TRUE]
      [] OTHER ->
           [st EXCEPT !.r = p.r, !.rx = p.rx, !.polled = @ + 1,
                      !.res = "Err", !.wait = p.res]

\* FillStep with a slip: read_done is not consulted.
FillStep_Reread(st) ==
    IF st.s.pos = st.s.cap
    THEN OnLine(st, LinesPoll(st.r, st.rx, st.rs))
    ELSE st

\* The fill step: if self.pos == self.cap && !self.read_done, poll the reader.
FillStep(st) ==
    IF st.s.pos = st.s.cap /\ ~st.s.read_done
    THEN OnLine(st, LinesPoll(st.r, st.rx, st.rs))
    ELSE st

RECURSIVE DrainLoop(_)

\* OnWrite with a slip: a write of 0 bytes is taken as "try again later".
OnWrite_Retry(st, p) ==
    CASE p.res = "NotReady" ->
           [st EXCEPT !.w = p.w, !.wrote = @ + 1, !.res = "NotReady",
                      !.wait = "write"]
      [] p.res = "IoErr" ->
           [st EXCEPT !.w = p.w, !.wrote = @ + 1, !.res = "Err", !.wait = "IoErr"]
      [] p.i = 0 ->
           [st EXCEPT !.w = p.w, !.wrote = @ + 1, !.res = "NotReady",
                      !.wait = "write"]
      [] OTHER ->
           DrainLoop([st EXCEPT !.w = p.w, !.wrote = @ + 1, !.s.pos = @ + p.i,
                                !.s.amt = @ + p.i])

\* OnWrite with a slip: the position moves back by the bytes written.
OnWrite_Back(st, p) ==
    CASE p.res = "NotReady" ->
           [st EXCEPT !.w = p.w, !.wrote = @ + 1, !.res = "NotReady",
                      !.wait = "write"]
      [] p.res = "IoErr" ->
           [st EXCEPT !.w = p.w, !.wrote = @ + 1, !.res = "Err", !.wait = "IoErr"]
      [] p.i = 0 ->
           [st EXCEPT !.w = p.w, !.wrote = @ + 1, !.res = "Err",
                      !.wait = "WriteZero"]
      [] OTHER ->
           DrainLoop([st EXCEPT !.w = p.w, !.wrote = @ + 1, !.s.pos = @ - p.i,
                                !.s.amt = @ + p.i])

\* OnWrite with a slip: the tally counts the writes, not the bytes written.
OnWrite_CountCalls(st, p) ==
    CASE p.res = "NotReady" ->
           [st EXCEPT !.w = p.w, !.wrote = @ + 1, !.res = "NotReady",
                      !.wait = "write"]
      [] p.res = "IoErr" ->
           [st EXCEPT !.w = p.w, !.wrote = @ + 1, !.res = "Err", !.wait = "IoErr"]
      [] p.i = 0 ->
           [st EXCEPT !.w = p.w, !.wrote = @ + 1, !.res = "Err",
                      !.wait = "WriteZero"]
      [] OTHER ->
           DrainLoop([st EXCEPT !.w = p.w, !.wrote = @ + 1, !.s.pos = @ + p.i,
                                !.s.amt = @ + 1])

\* The body of the drain loop on poll_write's answer p.
OnWrite(st, p) ==
    CASE p.res = "NotReady" ->
           [st EXCEPT !.w = p.w, !.wrote = @ + 1, !.res = "NotReady",
                      !.wait = "write"]
      [] p.res = "IoErr" ->
           [st EXCEPT !.w = p.w, !.wrote = @ + 1, !.res = "Err", !.wait = "IoErr"]
      [] p.i = 0 ->
           [st EXCEPT !.w = p.w, !.wrote = @ + 1, !.res = "Err",
                      !.wait = "WriteZero"]
      [] OTHER ->
           DrainLoop([st EXCEPT !.w = p.w, !.wrote = @ + 1, !.s.pos = @ + p.i,
                                !.s.amt = @ + p.i])

\* The drain loop: while self.pos < self.cap, write buf[pos..cap].
DrainLoop(st) ==
    IF st.res = "Running" /\ st.s.pos < st.s.cap
    THEN OnWrite(st, PollWrite(st.w, st.s.cap - st.s.pos))
    ELSE st

\* OnFlush with a slip: the flush's answer is not waited for.
OnFlush_NoWait(st, f) ==
    CASE f = "IoErr" ->
           [st EXCEPT !.flushed = @ + 1, !.res = "Err", !.wait = "IoErr"]
      [] OTHER ->
           [st EXCEPT !.flushed = @ + 1, !.res = "Ok", !.s.reader = FALSE,
                      !.s.writer = FALSE]

\* OnFlush with a slip: the halves are taken before the flush's answer is
\* looked at.
OnFlush_TakeEarly(st, f) ==
    CASE f = "NotReady" ->
           [st EXCEPT !.flushed = @ + 1, !.res = "NotReady", !.wait = "flush",
                      !.s.reader = FALSE, !.s.writer = FALSE]
      [] f = "IoErr" ->
           [st EXCEPT !.flushed = @ + 1, !.res = "Err", !.wait = "IoErr",
                      !.s.reader = FALSE, !.s.writer = FALSE]
      [] OTHER ->
           [st EXCEPT !.flushed = @ + 1, !.res = "Ok", !.s.reader = FALSE,
                      !.s.writer = FALSE]

\* The end of the transfer on poll_flush's answer f: both halves are given up.
OnFlush(st, f) ==
    CASE f = "NotReady" ->
           [st EXCEPT !.flushed = @ + 1, !.res = "NotReady", !.wait = "flush"]
      [] f = "IoErr" ->
           [st EXCEPT !.flushed = @ + 1, !.res = "Err", !.wait = "IoErr"]
      [] OTHER ->
           [st EXCEPT !.flushed = @ + 1, !.res = "Ok", !.s.reader = FALSE,
                      !.s.writer = FALSE]

\* The completion check: if self.pos == self.cap && self.read_done, flush and
\* finish.
FinishStep(st) ==
    IF st.res = "Running" /\ st.s.pos = st.s.cap /\ st.s.read_done
    THEN OnFlush(st, PollFlush(st.w))
    ELSE st

RECURSIVE PollLoop(_)

\* The end of one turn of the loop: go round again unless poll has returned.
Again(t) == IF t.res = "Running" THEN PollLoop(t) ELSE t

\* CacheSession::poll: the loop, until it returns.
PollLoop(st) == Again(FinishStep(DrainLoop(FillStep(st))))

\* Then with a slip: the session's error is handed on instead of Ok(()).
Then_Propagate(st) ==
    IF st.res = "Ok"
    THEN [entry |-> [k |-> "wrote", v |-> st.s.amt], ret |-> "ok"]
    ELSE [entry |-> [k |-> "error", v |-> st.wait], ret |-> "err"]

\* The supervisor's closure: amt.then(|result| ...): one line printed, Ok(()).
Then(st) ==
    IF st.res = "Ok"
    THEN [entry |-> [k |-> "wrote", v |-> st.s.amt], ret |-> "ok"]
    ELSE [entry |-> [k |-> "error", v |-> st.wait], ret |-> "ok"]

\* EndPhase with a slip: a failed session takes the other running tasks down.
EndPhase_Abort(c, res) ==
    IF res = "Ok"
    THEN [phase EXCEPT ![c] = "done"]
    ELSE [d \in Conns |-> IF phase[d] = "live" THEN "failed" ELSE phase[d]]

\* The tasks after the task of c has resolved with res: tokio::spawn runs each
\* session as a task of its own, so only c's ends.
EndPhase(c, res) ==
    [phase EXCEPT ![c] = IF res = "Ok" THEN "done" ELSE "failed"]

\* What the runtime does with the answer st of one poll of the task of c: the
\* session's state is kept; a resolved session goes through the closure.
Polled(c, st) ==
    /\ sess' = [sess EXCEPT ![c] = st.s]
    /\ lines' = [lines EXCEPT ![c] = st.r]
    /\ rx' = [rx EXCEPT ![c] = st.rx]
    /\ wr' = [wr EXCEPT ![c] = st.w]
    /\ last' = [last EXCEPT ![c] = [res |-> st.res, polled |-> st.polled,
                                   flushed |-> st.flushed, wrote |-> st.wrote]]
    /\ IF st.res = "NotReady"
       THEN /\ waiting' = [waiting EXCEPT ![c] = st.wait]
            /\ log' = [log EXCEPT ![c] = @ \o st.log]
            /\ UNCHANGED <<phase, task>>
       ELSE /\ waiting' = [waiting EXCEPT ![c] = "none"]
            /\ log' = [log EXCEPT ![c] = (@ \o st.log) \o <<Then(st).entry>>]
            /\ phase' = EndPhase(c, st.res)
            /\ task' = [task EXCEPT ![c] = Then(st).ret]

-----------------------------------------------------------------------------
(* Actions *)

\* One poll of the task of connection c by the runtime.
Poll(c) ==
    /\ phase[c] = "live"
    /\ Polled(c, PollLoop(PollState(c)))
    /\ UNCHANGED <<listener, llog, rstate, sent>>

\* A chunk of bytes from the peer of c arrives at the socket.
Arrive(c, chunk) ==
    /\ phase[c] = "live"
    /\ rstate[c] = "open"
    /\ rx' = [rx EXCEPT ![c] = @ \o chunk]
    /\ sent' = [sent EXCEPT ![c] = @ \o chunk]
    /\ UNCHANGED <<listener, llog, phase, sess, waiting, lines, rstate, wr, log,
                   task, last>>

\* The peer of c closes its write side: the socket reports end-of-stream once
\* the received bytes are read.
PeerClose(c) ==
    /\ phase[c] = "live"
    /\ rstate[c] = "open"
    /\ rstate' = [rstate EXCEPT ![c] = "eof"]
    /\ UNCHANGED <<listener, llog, phase, sess, waiting, lines, rx, wr, sent, log,
                   task, last>>

\* The connection of c breaks: reads of the socket fail from now on.
ReadError(c) ==
    /\ phase[c] = "live"
    /\ rstate[c] = "open"
    /\ rstate' = [rstate EXCEPT ![c] = "err"]
    /\ UNCHANGED <<listener, llog, phase, sess, waiting, lines, rx, wr, sent, log,
                   task, last>>

\* The write half of c becomes able to complete a flush.
FlushReady(c) ==
    /\ phase[c] = "live"
    /\ wr[c].fl = "pending"
    /\ wr' = [wr EXCEPT ![c].fl = "ready"]
    /\ UNCHANGED <<listener, llog, phase, sess, waiting, lines, rx, rstate, sent,
                   log, task, last>>

\* The write half of c breaks: a flush fails from now on.
FlushError(c) ==
    /\ phase[c] = "live"
    /\ wr[c].fl = "pending"
    /\ wr' = [wr EXCEPT ![c].fl = "err"]
    /\ UNCHANGED <<listener, llog, phase, sess, waiting, lines, rx, rstate, sent,
                   log, task, last>>

\* The write half of c becomes able to accept n more bytes.
WriteReady(c, n) ==
    /\ phase[c] = "live"
    /\ wr[c].mode = "ok"
    /\ wr[c].space = 0
    /\ wr' = [wr EXCEPT ![c].space = n]
    /\ UNCHANGED <<listener, llog, phase, sess, waiting, lines, rx, rstate, sent,
                   log, task, last>>

\* A client connects: its connection waits in the listener's backlog.
Connect(c) ==
    /\ phase[c] = "idle"
    /\ phase' = [phase EXCEPT ![c] = "queued"]
    /\ UNCHANGED <<listener, llog, sess, waiting, lines, rx, rstate, wr, sent, log,
                   task, last>>

\* incoming() yields the connection of c: the for_each closure splits it,
\* builds the session with cache_session and spawns the supervised task.
Accept(c, f) ==
    /\ listener = "listening"
    /\ phase[c] = "queued"
    /\ phase' = [phase EXCEPT ![c] = "live"]
    /\ sess' = [sess EXCEPT ![c] = cache_session]
    /\ lines' = [lines EXCEPT ![c] = NewLines]
    /\ wr' = [wr EXCEPT ![c].fl = f]
    /\ task' = [task EXCEPT ![c] = "spawned"]
    /\ UNCHANGED <<listener, llog, waiting, rx, rstate, sent, log, last>>

\* What the for_each future does when incoming() yields an error: map_err has
\* printed it, and for_each resolves with that error, which ends the stream's
\* processing.
ForEachOnError == "stopped"

\* incoming() yields an error: map_err prints it and hands Err(()) to for_each.
AcceptError ==
    /\ listener = "listening"
    /\ llog' = llog + 1
    /\ listener' = ForEachOnError
    /\ UNCHANGED <<phase, sess, waiting, lines, rx, rstate, wr, sent, log, task,
                   last>>

-----------------------------------------------------------------------------
(* One session on its own: connection A accepted, B never connects. *)

NoLast == [res |-> "none", polled |-> 0, flushed |-> 0, wrote |-> 0]

Writer(fl) == [mode |-> "ok", space |-> 0, fl |-> fl, out |-> 0]

Chunks == SeqsUpTo(Bytes, MaxChunk) \ {<<>>}

InitSession ==
    /\ listener = "listening"
    /\ llog = 0
    /\ phase = [c \in Conns |-> IF c = "A" THEN "live" ELSE "idle"]
    /\ sess = [c \in Conns |-> cache_session]
    /\ waiting = [c \in Conns |-> "none"]
    /\ lines = [c \in Conns |-> NewLines]
    /\ rx = [c \in Conns |-> <<>>]
    /\ rstate = [c \in Conns |-> "open"]
    /\ \E f \in {"ready", "pending"} : wr = [c \in Conns |-> Writer(f)]
    /\ sent = [c \in Conns |-> <<>>]
    /\ log = [c \in Conns |-> <<>>]
    /\ task = [c \in Conns |-> IF c = "A" THEN "spawned" ELSE "none"]
    /\ last = [c \in Conns |-> NoLast]

NextSession ==
    \/ Poll("A")
    \/ \E ch \in Chunks : Len(sent["A"]) + Len(ch) <= MaxBytes /\ Arrive("A", ch)
    \/ PeerClose("A")
    \/ ReadError("A")
    \/ FlushReady("A")
    \/ FlushError("A")

SpecSession == InitSession /\ [][NextSession]_vars

\* A poll of c that answers st changes the state: it resolves the session, or
\* moves the session, its reader, its socket or its write half, or prints, or
\* suspends it somewhere else than before.
PollChanges(c, st) ==
    \/ st.res # "NotReady"
    \/ st.s # sess[c]
    \/ st.r # lines[c]
    \/ st.rx # rx[c]
    \/ st.w # wr[c]
    \/ st.log # <<>>
    \/ st.wait # waiting[c]
    \/ last[c] # [res |-> st.res, polled |-> st.polled, flushed |-> st.flushed,
                 wrote |-> st.wrote]

\* ENABLED <<Poll(c)>>_vars, as a state predicate: the task of c is running and
\* a poll of it would change the state (it was never polled, or what it waits
\* for has happened).
PollActs(c) == phase[c] = "live" /\ PollChanges(c, PollLoop(PollState(c)))

\* WF_vars(Poll(c)), with its ENABLED written out as PollActs(c): the runtime
\* polls a spawned task at first and again whenever the readiness it waits for
\* occurs.
PollFair(c) == []<>(~PollActs(c)) \/ []<><<Poll(c)>>_vars

\* The same session under the scheduling the runtime gives a spawned task; the
\* peer closes its write side in the end, and a pending flush becomes able to
\* complete, unless the connection breaks first.
SpecLive ==
    /\ InitSession
    /\ [][NextSession]_vars
    /\ PollFair("A")
    /\ WF_vars(PeerClose("A"))
    /\ WF_vars(FlushReady("A"))

-----------------------------------------------------------------------------
(* The server: the listener and the sessions of both connections. *)

\* What a peer sends over its connection in the two-connection runs: two
\* lines, a line holding a two-byte character, a line that is not valid UTF-8,
\* a line and an unterminated tail.
Messages ==
    {<<"a", LF, "a", LF>>, <<HI, LO, LF>>, <<LO, LF>>, <<"a", LF, "a">>}

\* The chunks these arrive in: whole lines and parts of lines.
PeerChunks == {<<"a", LF>>, <<"a">>, <<LF>>, <<HI>>, <<LO, LF>>, <<HI, LO, LF>>}

IsPrefix(s, m) == Len(s) <= Len(m) /\ SubSeq(m, 1, Len(s)) = s

Sendable(s) == \E m \in Messages : IsPrefix(s, m)

Init ==
    /\ listener = "listening"
    /\ llog = 0
    /\ phase = [c \in Conns |-> "idle"]
    /\ sess = [c \in Conns |-> cache_session]
    /\ waiting = [c \in Conns |-> "none"]
    /\ lines = [c \in Conns |-> NewLines]
    /\ rx = [c \in Conns |-> <<>>]
    /\ rstate = [c \in Conns |-> "open"]
    /\ wr = [c \in Conns |-> Writer("ready")]
    /\ sent = [c \in Conns |-> <<>>]
    /\ log = [c \in Conns |-> <<>>]
    /\ task = [c \in Conns |-> "none"]
    /\ last = [c \in Conns |-> NoLast]

Next ==
    \/ \E c \in Conns : Connect(c)
    \/ \E c \in Conns : Accept(c, "ready")
    \/ AcceptError
    \/ \E c \in Conns : Poll(c)
    \/ \E c \in Conns : \E ch \in PeerChunks :
          Sendable(sent[c] \o ch) /\ Arrive(c, ch)
    \/ \E c \in Conns : PeerClose(c)
    \/ \E c \in Conns : ReadError(c)

Spec == Init /\ [][Next]_vars

-----------------------------------------------------------------------------
(* CacheSession::poll as a function of the session's fields: connection A in   *)
(* any state of its indices and any state of its write half.                   *)

InitDrain ==
    /\ listener = "listening"
    /\ llog = 0
    /\ phase = [c \in Conns |-> IF c = "A" THEN "live" ELSE "idle"]
    /\ \E cp \in 0..MaxCap : \E ps \in 0..cp : \E rd \in BOOLEAN :
          sess = [c \in Conns |->
                    IF c = "A"
                    THEN [cache_session EXCEPT !.cap = cp, !.pos = ps,
                                               !.read_done = rd]
                    ELSE cache_session]
    /\ waiting = [c \in Conns |-> "none"]
    /\ lines = [c \in Conns |-> NewLines]
    /\ rx = [c \in Conns |-> <<>>]
    /\ rstate = [c \in Conns |-> IF sess[c].read_done THEN "eof" ELSE "open"]
    /\ \E m \in {"ok", "zero", "err"} : \E sp \in 0..MaxCap :
          wr = [c \in Conns |->
                  IF c = "A" THEN [Writer("ready") EXCEPT !.mode = m, !.space = sp]
                  ELSE Writer("ready")]
    /\ sent = [c \in Conns |-> <<>>]
    /\ log = [c \in Conns |-> <<>>]
    /\ task = [c \in Conns |-> IF c = "A" THEN "spawned" ELSE "none"]
    /\ last = [c \in Conns |-> NoLast]

NextDrain ==
    \/ Poll("A")
    \/ \E n \in 1..MaxCap : WriteReady("A", n)
    \/ (sent["A"] = <<>> /\ Arrive("A", <<"a", LF>>))
    \/ PeerClose("A")

SpecDrain == InitDrain /\ [][NextDrain]_vars

-----------------------------------------------------------------------------
(* Properties *)

\* s is empty or ends with LF: whole, newline-terminated lines.
Terminated(s) == s = <<>> \/ s[Len(s)] = LF

\* The bytes of s after its last LF.
RECURSIVE TailOf(_)
TailOf(s) == IF IndexOfLF(s) = 0 THEN s ELSE TailOf(SubSeq(s, IndexOfLF(s) + 1, Len(s)))

\* The printed entries of kind k among l.
Entries(l, k) == SelectSeq(l, LAMBDA e : e.k = k)

\* The terminal entries (completion or error) among l.
Terminal(l) == SelectSeq(l, LAMBDA e : e.k \in {"wrote", "error"})

\* The peer of c sent whole lines of valid text and closed, and nothing failed
\* on the connection.
CleanRun(c) ==
    /\ rstate[c] = "eof"
    /\ wr[c].fl # "err"
    /\ Terminated(sent[c])
    /\ Utf8Valid(sent[c])

Ended(c) == phase[c] \in {"done", "failed"}

\* C1: echo: when a session completes, every byte its client sent has been
\* written to the write half of the same connection.
C1_Echo == \A c \in Conns : phase[c] = "done" => wr[c].out = Len(sent[c])

\* C2: line counting: a session whose peer sent N newline-terminated lines and
\* closed ends completed with tally N, however the bytes were split across
\* reads and polls.
C2_LineCount ==
    \A c \in Conns :
        (Ended(c) /\ CleanRun(c)) =>
            (phase[c] = "done" /\ sess[c].amt = CountLF(sent[c]))

\* C3 (as claimed): bytes sent without a trailing newline before the close are
\* not counted: the tally of a completed session is the number of newlines.
C3_TailNotCounted ==
    \A c \in Conns :
        (phase[c] = "done" /\ sent[c] # <<>> /\ ~Terminated(sent[c])) =>
            sess[c].amt = CountLF(sent[c])

\* What the reader of c still has to hand out: its accumulated line, its buffer
\* and the socket's unread bytes.
Unread(c) == (lines[c].line \o lines[c].rbuf) \o rx[c]

\* C3 (amended): in the poll that completes a session, unterminated bytes the
\* reader holds at end-of-stream are handed out as one final line: the tally
\* grows by one for them, after one for each newline still unread, the last
\* "got line" entry is those bytes, and read_done is set by a further reader
\* poll of the same call, followed by the flush.
C3_TailCounted ==
    [][\A c \in Conns :
          (phase[c] = "live" /\ phase'[c] = "done" /\ TailOf(Unread(c)) # <<>>) =>
              /\ sess'[c].amt = sess[c].amt + CountLF(Unread(c)) + 1
              /\ Len(log'[c]) >= 2
              /\ log'[c][Len(log'[c]) - 1] = [k |-> "line", v |-> TailOf(Unread(c))]
              /\ sess'[c].read_done
              /\ last'[c].polled = CountLF(Unread(c)) + 2
              /\ last'[c].flushed = 1]_vars

C3_Witness ==
    /\ phase["A"] = "done"
    /\ sent["A"] = <<"a", LF, "a">>
    /\ sess["A"].amt = 2
    /\ log["A"][2] = [k |-> "line", v |-> <<"a">>]

\* C4: a session resolves successfully only in a poll that ends with read_done
\* true, pos = cap and a flush that completed; a flush that cannot complete
\* leaves the session suspended and unresolved, and the next poll attempts the
\* flush again.
C4_FlushThenFinish ==
    /\ [](\A c \in Conns :
            /\ phase[c] = "done" =>
                  /\ sess[c].read_done
                  /\ sess[c].pos = sess[c].cap
                  /\ last[c].res = "Ok"
                  /\ last[c].flushed = 1
                  /\ wr[c].fl = "ready"
            /\ waiting[c] = "flush" =>
                  /\ phase[c] = "live"
                  /\ sess[c].read_done
                  /\ sess[c].pos = sess[c].cap
                  /\ last[c].res = "NotReady"
                  /\ last[c].flushed = 1)
    /\ [][\A c \in Conns :
            /\ (Poll(c) /\ sess[c].read_done /\ sess[c].pos = sess[c].cap
                        /\ wr[c].fl = "pending") =>
                  (phase'[c] = "live" /\ waiting'[c] = "flush" /\ sess'[c] = sess[c])
            /\ (Poll(c) /\ waiting[c] = "flush") =>
                  (last'[c].flushed = 1 /\ last'[c].polled = 0)]_vars

C4_Witness ==
    /\ phase["A"] = "done"
    /\ last["A"].polled = 0
    /\ last["A"].flushed = 1
    /\ wr["A"].fl = "ready"

\* The state of connection c: its session, its reader, its socket, its task.
ConnState(c) ==
    <<phase[c], sess[c], waiting[c], lines[c], rx[c], rstate[c], wr[c], sent[c],
      log[c], task[c], last[c]>>

\* C5: a step in which a session fails leaves every other connection's state
\* (tally, read_done, pos, cap, reader, socket, task, printed lines) and the
\* listener as they were.
C5_Isolation ==
    [][\A a \in Conns : \A b \in Conns \ {a} :
          (phase[a] = "live" /\ phase'[a] = "failed") =>
              /\ ConnState(b)' = ConnState(b)
              /\ listener' = listener]_vars

C5_Witness ==
    /\ phase["A"] = "failed"
    /\ phase["B"] = "done"
    /\ sess["B"].amt = 2
    /\ sent["B"] = <<"a", LF, "a", LF>>

\* C6: two clients that sent different numbers of whole lines and closed: once
\* both sessions have ended, both have completed, each with the number of its
\* own connection's lines.
C6_ConcurrentTallies ==
    ((\A c \in Conns : Ended(c) /\ CleanRun(c) /\ CountLF(sent[c]) >= 1)
       /\ CountLF(sent["A"]) # CountLF(sent["B"])) =>
        \A c \in Conns : phase[c] = "done" /\ sess[c].amt = CountLF(sent[c])

\* C7: once read_done is set, a further read of the reader yields "no more
\* lines", and every later poll of the session leaves the reader alone and the
\* tally as it is: it attempts the flush, and completes, stays suspended on the
\* flush, or fails on the flush's own error.
C7_EofIdempotent ==
    /\ [](\A c \in Conns :
            sess[c].read_done =>
                LinesPoll(lines[c], rx[c], rstate[c]).res = "None")
    /\ [][\A c \in Conns :
            (Poll(c) /\ sess[c].read_done) =>
                /\ last'[c].polled = 0
                /\ last'[c].flushed = 1
                /\ sess'[c].amt = sess[c].amt
                /\ lines'[c] = lines[c]
                /\ Entries(log'[c], "line") = Entries(log[c], "line")
                /\ (phase'[c] = "done" <=> wr[c].fl = "ready")
                /\ (phase'[c] = "live" <=> wr[c].fl = "pending")
                /\ (phase'[c] = "failed" <=> wr[c].fl = "err")]_vars

C7_Witness ==
    /\ phase["A"] = "done"
    /\ last["A"].polled = 0
    /\ sess["A"].amt = 2
    /\ sess["A"].read_done

\* The last printed entry of c is the error e.
LastError(c, e) ==
    log[c] # <<>> /\ log[c][Len(log[c])] = [k |-> "error", v |-> e]

\* C8: a poll that starts with pos < cap on a write half that accepts 0 bytes
\* fails the session with WriteZero in that poll, after a single write attempt,
\* with pos and the tally as they were.
C8_WriteZero ==
    [][\A c \in Conns :
          (Poll(c) /\ sess[c].pos < sess[c].cap /\ wr[c].mode = "zero") =>
              /\ phase'[c] = "failed"
              /\ last'[c].res = "Err"
              /\ last'[c].wrote = 1
              /\ Len(log'[c]) = Len(log[c]) + 1
              /\ log'[c][Len(log'[c])] = [k |-> "error", v |-> "WriteZero"]
              /\ sess'[c].pos = sess[c].pos
              /\ sess'[c].amt = sess[c].amt]_vars

C8_Witness ==
    /\ phase["A"] = "failed"
    /\ LastError("A", "WriteZero")
    /\ sess["A"].pos < sess["A"].cap

\* C9: after a failed accept the listener loop is still accepting.
C9_AcceptRecovery == llog > 0 => listener = "listening"

\* C10: an ended session has printed exactly one terminal entry, its last: the
\* completion entry with its tally if it completed, an error entry if it
\* failed; a session that has not ended has printed none; the supervised task
\* resolves with Ok; an ended session is never polled or changed again, and the
\* step that ends it leaves the listener as it was.
C10_Containment ==
    /\ [](\A c \in Conns :
            /\ Ended(c) =>
                  /\ Len(Terminal(log[c])) = 1
                  /\ log[c][Len(log[c])] = Terminal(log[c])[1]
                  /\ task[c] = "ok"
            /\ phase[c] = "done" =>
                  log[c][Len(log[c])] = [k |-> "wrote", v |-> sess[c].amt]
            /\ phase[c] = "failed" => log[c][Len(log[c])].k = "error"
            /\ ~Ended(c) => (Terminal(log[c]) = <<>> /\ task[c] \in {"none", "spawned"}))
    /\ [][\A c \in Conns :
            /\ Ended(c) => ConnState(c)' = ConnState(c)
            /\ (phase[c] = "live" /\ Ended(c)') => listener' = listener]_vars

C10_Witness ==
    \E c \in Conns :
        /\ phase[c] = "failed"
        /\ task[c] = "ok"
        /\ LastError(c, "InvalidData")
        /\ listener = "listening"
        /\ \E d \in Conns \ {c} : phase[d] = "live"

\* The lines of s as the line reader hands them out: the bytes between the
\* newlines, and the bytes after the last newline if there are any.
RECURSIVE SplitLines(_)
SplitLines(s) ==
    IF s = <<>> THEN <<>>
    ELSE IF IndexOfLF(s) = 0 THEN <<s>>
    ELSE <<SubSeq(s, 1, IndexOfLF(s) - 1)>>
             \o SplitLines(SubSeq(s, IndexOfLF(s) + 1, Len(s)))

\* The "got line" entries of the lines ls, in order.
RECURSIVE LineEntries(_)
LineEntries(ls) ==
    IF ls = <<>> THEN <<>>
    ELSE <<[k |-> "line", v |-> ls[1]]>> \o LineEntries(Tail(ls))

\* C11: log ordering: a session whose peer sent whole lines of valid text and
\* closed has printed one "got line" entry per line sent, in the order sent,
\* and after them its single completion entry, whose tally is the number of
\* "got line" entries.
C11_LogOrder ==
    \A c \in Conns :
        (Ended(c) /\ CleanRun(c)) =>
            log[c] = LineEntries(SplitLines(sent[c]))
                         \o <<[k |-> "wrote", v |-> Len(SplitLines(sent[c]))]>>

\* C12: buffer indices: in every state of a session 0 <= pos <= cap <= the
\* buffer's length, and a poll whose writes accepted n bytes in all has moved
\* pos forward by n and left cap as it was.
C12_Indices ==
    /\ [](\A c \in Conns :
            /\ sess[c].pos \in Nat
            /\ sess[c].cap \in Nat
            /\ sess[c].pos <= sess[c].cap
            /\ sess[c].cap <= BufLen)
    /\ [][\A c \in Conns :
            Poll(c) =>
                /\ sess'[c].pos = sess[c].pos + (wr'[c].out - wr[c].out)
                /\ sess'[c].cap = sess[c].cap]_vars

C12_Witness ==
    /\ sess["A"].cap = 2
    /\ sess["A"].pos = 2
    /\ wr["A"].out = 2
    /\ last["A"].wrote >= 1

RECURSIVE ReaderEnds(_, _, _)
AfterLine(p, rs) == IF p.res = "Some" THEN ReaderEnds(p.r, p.rx, rs) ELSE p.res
ReaderEnds(r, rxc, rs) == AfterLine(LinesPoll(r, rxc, rs), rs)

\* The number of lines the reader hands out before that answer.
RECURSIVE ReaderLines(_, _, _)
CountLine(p, rs) == IF p.res = "Some" THEN 1 + ReaderLines(p.r, p.rx, rs) ELSE 0
ReaderLines(r, rxc, rs) == CountLine(LinesPoll(r, rxc, rs), rs)

\* C14: read_done is false until the session's first poll; a poll sets it
\* exactly when the line reader reports the end of the stream in that poll;
\* no other step changes it, and once true it stays true.
C14_ReadDone ==
    /\ [](\A c \in Conns : last[c].res = "none" => ~sess[c].read_done)
    /\ [][\A c \in Conns :
            /\ sess[c].read_done => sess'[c].read_done
            /\ ~Poll(c) => sess'[c].read_done = sess[c].read_done
            /\ (Poll(c) /\ ~sess[c].read_done) =>
                  (sess'[c].read_done <=>
                       ReaderEnds(lines[c], rx[c], rstate[c]) = "None")]_vars

C14_Witness ==
    /\ phase["A"] = "live"
    /\ sess["A"].read_done
    /\ waiting["A"] = "flush"
    /\ last["A"].polled = 2
    /\ sess["A"].amt = 1

\* C15: tally accounting: no step lowers a session's tally; a poll raises it by
\* one for each line the reader produced in it plus the number of bytes its
\* writes accepted, so that a poll which only suspends, observes the end of the
\* stream, flushes or fails leaves it as it was; no other step changes it.
C15_Tally ==
    [][\A c \in Conns :
          /\ sess'[c].amt >= sess[c].amt
          /\ Poll(c) =>
                sess'[c].amt =
                    sess[c].amt
                      + (Len(Entries(log'[c], "line")) - Len(Entries(log[c], "line")))
                      + (wr'[c].out - wr[c].out)
          /\ ~Poll(c) => sess'[c].amt = sess[c].amt]_vars

C15_Witness ==
    /\ sess["A"].amt = 3
    /\ wr["A"].out = 2
    /\ Len(Entries(log["A"], "line")) = 1
    /\ last["A"].wrote = 1
    /\ last["A"].polled >= 1

\* C16: suspension leaves the session unchanged.  A poll in which the reader
\* ends not ready suspends the session on the read with read_done, pos and cap
\* as they were and the tally and the "got line" entries raised only by the
\* lines handed out before the not-ready answer (none, when the reader is not
\* ready at once: the session is then exactly as before and nothing is
\* printed); a poll whose flush cannot complete suspends on the flush with the
\* session and the reader as they were; the next poll starts with the reader,
\* respectively the flush, again.
C16_SuspendFrame ==
    [][\A c \in Conns :
          /\ (Poll(c) /\ ~sess[c].read_done
                      /\ ReaderEnds(lines[c], rx[c], rstate[c]) = "NotReady") =>
                /\ phase'[c] = "live"
                /\ waiting'[c] = "read"
                /\ last'[c].res = "NotReady"
                /\ sess'[c] = [sess[c] EXCEPT
                                 !.amt = @ + ReaderLines(lines[c], rx[c], rstate[c])]
                /\ Len(log'[c]) =
                       Len(log[c]) + ReaderLines(lines[c], rx[c], rstate[c])
                /\ Terminal(log'[c]) = <<>>
          /\ (Poll(c) /\ sess[c].read_done /\ wr[c].fl = "pending") =>
                /\ phase'[c] = "live"
                /\ waiting'[c] = "flush"
                /\ sess'[c] = sess[c]
                /\ lines'[c] = lines[c]
                /\ log'[c] = log[c]
          /\ (Poll(c) /\ waiting[c] = "read") =>
                (last'[c].polled >= 1 /\ last'[c].wrote = 0)
          /\ (Poll(c) /\ waiting[c] = "flush") =>
                (last'[c].polled = 0 /\ last'[c].flushed = 1)]_vars

C16_Witness ==
    /\ phase["A"] = "live"
    /\ waiting["A"] = "read"
    /\ lines["A"].line = <<"a">>
    /\ rx["A"] = <<>>
    /\ sess["A"] = cache_session
    /\ log["A"] = <<>>

\* C17: termination: under that scheduling every running session ends,
\* completed or failed: no poll runs forever, and no session stays suspended
\* once what it waits for has happened.
C17_Termination == \A c \in Conns : phase[c] = "live" ~> Ended(c)

C17_Witness ==
    /\ phase["A"] = "done"
    /\ sent["A"] = <<"a", LF>>
    /\ rstate["A"] = "eof"
    /\ sess["A"].amt = 1

\* C18: read-side errors are fatal: a poll in which the reader ends with a
\* decode error or an I/O error fails the session in that poll; the tally and
\* the "got line" entries grow only by the lines handed out before the error,
\* no flush is attempted, the error is the session's last entry, and a failed
\* session never has a completion entry.
C18_ReadErrorFatal ==
    /\ [](\A c \in Conns : phase[c] = "failed" => Entries(log[c], "wrote") = <<>>)
    /\ [][\A c \in Conns :
            /\ (Poll(c) /\ ~sess[c].read_done
                    /\ ReaderEnds(lines[c], rx[c], rstate[c]) \in {"InvalidData", "IoErr"}) =>
                  /\ phase'[c] = "failed"
                  /\ last'[c].res = "Err"
                  /\ last'[c].flushed = 0
                  /\ sess'[c] = [sess[c] EXCEPT
                                   !.amt = @ + ReaderLines(lines[c], rx[c], rstate[c])]
                  /\ Len(Entries(log'[c], "line")) =
                         Len(Entries(log[c], "line"))
                             + ReaderLines(lines[c], rx[c], rstate[c])
                  /\ log'[c][Len(log'[c])] =
                         [k |-> "error", v |-> ReaderEnds(lines[c], rx[c], rstate[c])]
            /\ phase[c] = "failed" => (phase'[c] = "failed" /\ log'[c] = log[c])]_vars

C18_Witness ==
    /\ phase["A"] = "failed"
    /\ LastError("A", "InvalidData")
    /\ sess["A"].amt = 1
    /\ last["A"].flushed = 0
    /\ last["A"].polled = 2

\* C19: the halves are present whenever they are used: a session that can
\* be polled owns its reader and its writer; both are given up together, in
\* the poll that resolves the session with Ok and in no other step; a failed
\* session still owned both when it was dropped; and a resolved session is not
\* polled again.
C19_HalvesPresent ==
    /\ [](\A c \in Conns :
            /\ phase[c] \in {"idle", "queued", "live", "failed"} =>
                  (sess[c].reader /\ sess[c].writer)
            /\ phase[c] = "done" => (~sess[c].reader /\ ~sess[c].writer))
    /\ [][\A c \in Conns :
            /\ (sess'[c].reader # sess[c].reader \/ sess'[c].writer # sess[c].writer) =>
                  /\ Poll(c)
                  /\ sess[c].reader /\ sess[c].writer
                  /\ ~sess'[c].reader /\ ~sess'[c].writer
                  /\ last'[c].res = "Ok"
                  /\ last'[c].flushed = 1
                  /\ phase'[c] = "done"
            /\ Ended(c) => (last'[c] = last[c] /\ sess'[c] = sess[c])]_vars

C19_Witness ==
    /\ phase["A"] = "done"
    /\ ~sess["A"].reader
    /\ ~sess["A"].writer
    /\ last["A"].polled = 3
    /\ last["A"].flushed = 1

====
